---------------------------- MODULE Spec2Model ----------------------------
(***************************************************************************)
(* A model of personalVAD's overlap pipeline:                              *)
(*   - the overlap injector of generate_overlapping_utterances.py          *)
(*     (specification SpecGen),                                            *)
(*   - the label derivation of extract_features_overlap.py                 *)
(*     (specification SpecLab),                                            *)
(*   - the score upsampling of extract_features_overlap.py                 *)
(*     (specification SpecScore).                                          *)
(*                                                                         *)
(* Amplitudes are integers in thousandths (1000 is 1.0), the amplitude     *)
(* ratio is in tenths (7 is 0.7).  numpy arrays are sequences: the slice   *)
(* a[s:e] of the code is the index range s+1..e here.                      *)
(***************************************************************************)
EXTENDS Integers, Sequences, FiniteSets, TLC

VARIABLES
    \* ---- generate_overlapping_utterances: one iteration, from line 133 on
    overlap_pct,      \* the --overlap_pct argument
    amplitude_ratio,  \* the --amplitude_ratio argument, in tenths
    main_audio,       \* the concatenated, trimmed main track
    final_audio,      \* the mixed buffer
    n_overlaps,       \* the number of overlap events drawn for the example
    overlap_idx,      \* the loop variable of the overlap loop
    overlap_info,     \* the recorded events: [start, end] in samples
    mix_log,          \* history: what each mixed event was computed from
    persisted,        \* what the written example says of its events
    gen_pc,           \* "loop" | "persist" | "done" | "assert_failed"
    \* ---- extract_features_with_overlap: the labels of one record
    n,                \* logfbanks.shape[0], the number of frames
    gtruth,           \* the transcript tokens of txt[utt_id]
    tstamps,          \* the timestamps of txt[utt_id], in milliseconds
    which,            \* the selected target ordinal
    which_range,      \* history: the ordinals line 183 or 193 draws from
    labels,           \* the label array
    overlap_regions,  \* what parse_overlap_transcript returned
    region_idx,       \* the regions applied so far
    region_log,       \* history: the labels before and after each region
    lab_pc,           \* "select" | "base" | "parse" | "apply" | "write" | "done"
    \* ---- extract_features_with_overlap: the scores of one record
    frame_step,       \* the hop of the sliced scores, in frames
    sco_n,            \* logfbanks.shape[0]
    scores_slices,    \* the sliced scores
    scores_kron,      \* the step stream
    scores_lin,       \* the linear stream, every entry times frame_step
    scores_stream,    \* the streaming scores
    scores,           \* the stacked score matrix
    written,          \* the shapes handed to the three writers
    sco_pc,           \* "expand" | "stack" | "stacked" | "skipped" | "written"
    \* ---- extract_features_overlap, __main__: the workers and the queues
    files,            \* the shard ids of glob('split_*.scp') after files.sort()
    nj,               \* len(files)
    q_send,           \* the shared inbound queue of the encoder service
    q_return,         \* the return queues, q_return[i] for i in 0..nj-1
    wk,               \* the worker of each shard id: its position and record
    taken,            \* history: the replies the workers took
    \* ---- extract_features_with_overlap: the loop over one shard
    wav_scp,          \* the records of the shard, in input order
    wav_pos,          \* the records wav_iter has yielded or failed on
    outcomes,         \* history: what became of each record visited
    utter_count,      \* the records written
    wrk_pc,           \* "loop" | "closed" | "aborted"
    array_writer,     \* the ids written to the feature store, in order
    score_writer,     \* the ids written to the score store
    label_writer,     \* the ids written to the label store
    target_writer,    \* the ids of the lines of the target index
    \* ---- generate_overlapping_utterances.py: one run of the script
    args,             \* overlap_pct, amplitude_ratio (tenths), dest, count
    dataset,          \* the pool: speaker -> its unconsumed utterances
    drawn,            \* history: how often each utterance was drawn
    iteration,        \* the loop variable of line 70
    ov_left,          \* the overlap events still to draw in this iteration
    generated,        \* history: the examples written
    reported,         \* the count printed at the end, -1 before
    effects,          \* history: dataset loaded, directory and index created
    depleted,         \* history: random.sample raised ValueError (line 81)
    run_pc,           \* the position in the script
    main_speakers_ids,     \* the speakers of the main track of the iteration
                           \* in progress, empty between iterations
    overlap_speakers_ids,  \* the speakers of its recorded overlap events
    \* ---- generate_overlapping_utterances: the main track, lines 94-133
    main_utterances,  \* the utterances drawn: their stamps and end stamp, ms
    utt_idx,          \* the utterances appended so far
    main_tstamps,     \* the combined timestamps, in milliseconds
    prev_end_stamp,   \* the running duration, in milliseconds
    stamp_pc,         \* "build" | "skipped" | "done"
    \* ---- generate_overlapping_utterances: one event by its sizes only,
    \* lines 175-254
    event_in,         \* overlap_pct and the sizes of main track and snippet
    event_out,        \* the duration, start and end computed for the event
    event_pc,         \* "duration" | "place" | "recorded" | "skipped"
    \* ---- generate_overlapping_utterances: the length of the main track,
    \* lines 94-131, and what the iteration writes
    trimmed_sizes,    \* x.size of every main utterance after trim_utt_end
    build_idx,        \* the utterances read so far
    main_audio_size,  \* main_audio.size
    build_written,    \* history: the files this iteration wrote to
    build_pc          \* "loop" | "check" | "skipped" | "persisted"

genVars == <<overlap_pct, amplitude_ratio, main_audio, final_audio,
             n_overlaps, overlap_idx, overlap_info, mix_log, persisted,
             gen_pc>>
labVars == <<n, gtruth, tstamps, which, which_range, labels, overlap_regions,
             region_idx, region_log, lab_pc>>
scoVars == <<frame_step, sco_n, scores_slices, scores_kron, scores_lin,
             scores_stream, scores, written, sco_pc>>

quVars == <<files, nj, q_send, q_return, wk, taken>>

writerVars == <<array_writer, score_writer, label_writer, target_writer>>

wrkVars == <<wav_scp, wav_pos, outcomes, utter_count, wrk_pc, writerVars>>

speakerVars == <<main_speakers_ids, overlap_speakers_ids>>

runVars == <<args, dataset, drawn, iteration, ov_left, generated, reported,
             effects, depleted, run_pc, speakerVars>>

stampVars == <<main_utterances, utt_idx, main_tstamps, prev_end_stamp,
               stamp_pc>>

evVars == <<event_in, event_out, event_pc>>

buildVars == <<trimmed_sizes, build_idx, main_audio_size, build_written,
               build_pc>>

vars == <<genVars, labVars, scoVars, quVars, wrkVars, runVars, stampVars,
          evVars, buildVars>>

\* what the actions of one specification leave alone
notGen == <<labVars, scoVars, quVars, wrkVars, runVars,
            stampVars, evVars, buildVars>>
notLab == <<genVars, scoVars, quVars, wrkVars, runVars,
            stampVars, evVars, buildVars>>
notSco == <<genVars, labVars, quVars, wrkVars, runVars,
            stampVars, evVars, buildVars>>
notQu == <<genVars, labVars, scoVars, wrkVars, runVars,
           stampVars, evVars, buildVars>>
notWrk == <<genVars, labVars, scoVars, quVars, runVars,
            stampVars, evVars, buildVars>>
notStamp == <<genVars, labVars, scoVars, quVars, wrkVars, runVars, evVars,
              buildVars>>
notEv == <<genVars, labVars, scoVars, quVars, wrkVars, runVars, stampVars,
           buildVars>>
notBuild == <<genVars, labVars, scoVars, quVars, wrkVars, runVars, stampVars,
              evVars>>
notRun == <<genVars, labVars, scoVars, quVars, wrkVars,
            stampVars, evVars, buildVars>>

\* the parts of the state a specification does not use stay as they are here
GenIdle ==
    /\ overlap_pct = 0 /\ amplitude_ratio = 0 /\ main_audio = <<>>
    /\ final_audio = <<>> /\ n_overlaps = 0 /\ overlap_idx = 0
    /\ overlap_info = <<>> /\ mix_log = <<>> /\ persisted = <<>>
    /\ gen_pc = "idle"
LabIdle ==
    /\ n = 0 /\ gtruth = <<>> /\ tstamps = <<>> /\ which = 0 /\ labels = <<>>
    /\ which_range = {}
    /\ overlap_regions = <<>> /\ region_idx = 0 /\ region_log = <<>>
    /\ lab_pc = "idle"
ScoIdle ==
    /\ frame_step = 0 /\ sco_n = 0 /\ scores_slices = <<>>
    /\ scores_kron = <<>> /\ scores_lin = <<>> /\ scores_stream = <<>>
    /\ scores = <<>> /\ written = <<>> /\ sco_pc = "idle"
QuIdle ==
    /\ files = <<>> /\ nj = 0 /\ q_send = <<>> /\ q_return = <<>>
    /\ wk = <<>> /\ taken = <<>>
WrkIdle ==
    /\ wav_scp = <<>> /\ wav_pos = 0 /\ outcomes = <<>> /\ utter_count = 0
    /\ wrk_pc = "idle"
    /\ array_writer = <<>> /\ score_writer = <<>> /\ label_writer = <<>>
    /\ target_writer = <<>>
RunIdle ==
    /\ args = <<>> /\ dataset = <<>> /\ drawn = <<>> /\ iteration = 0
    /\ ov_left = 0 /\ generated = 0 /\ reported = 0 /\ effects = {}
    /\ depleted = FALSE /\ run_pc = "idle"
    /\ main_speakers_ids = {} /\ overlap_speakers_ids = {}
StampIdle ==
    /\ main_utterances = <<>> /\ utt_idx = 0 /\ main_tstamps = <<>>
    /\ prev_end_stamp = 0 /\ stamp_pc = "idle"
EvIdle == event_in = <<>> /\ event_out = <<>> /\ event_pc = "idle"
BuildIdle ==
    /\ trimmed_sizes = <<>> /\ build_idx = 0 /\ main_audio_size = 0
    /\ build_written = {} /\ build_pc = "idle"

Min2(a, b) == IF a < b THEN a ELSE b
Max2(a, b) == IF a > b THEN a ELSE b

(***************************************************************************)
(* Program constants of generate_overlapping_utterances.py.                *)
(***************************************************************************)
SampleRate == 16000
\* MIN_OVERLAP_DURATION = 0.5 s and MAX_OVERLAP_DURATION = 3.0 s, in tenths
MIN_OVERLAP_DURATION == 5
MAX_OVERLAP_DURATION == 30
\* `main_audio.size < 100`, `overlap_audio.size < 100`
MinSamples == 100

(***************************************************************************)
(* Bounds of the generator model.                                          *)
(***************************************************************************)
\* the main track has MinSamples or MinSamples + MaxExtra samples
MaxExtra == 4

PctValues == {30, 80, 100}
RatioValues == {0, 7, 15}
MainSizes == {MinSamples, MinSamples + MaxExtra}
\* sizes of the concatenated overlap snippet: too short, as long as the
\* shortest main track, and shorter and longer than the longest
OverlapSizes == {MinSamples - 1, MinSamples, MinSamples + 1,
                 MinSamples + MaxExtra + 1}

\* sample i (1-based) of the main track of a given kind: samples in [-1, 1]
MainSample(kind, i) ==
    IF kind = 1 THEN 600
    ELSE IF i % 2 = 1 THEN -900 ELSE 1000

\* sample i (1-based) of an overlap snippet of a given kind, period 3
OverlapSample(kind, i) ==
    LET p == <<1000, 500, -200>>[((i - 1) % 3) + 1]
    IN  IF kind = 1 THEN p ELSE 0 - p

MainAudio(kind, size) == [i \in 1..size |-> MainSample(kind, i)]
OverlapAudio(kind, size) == [i \in 1..size |-> OverlapSample(kind, i)]

(***************************************************************************)
(* generate_overlapping_utterances, lines 180-243: the pure parts.         *)
(***************************************************************************)
\* int(np.ceil(a / b)) for a >= 0, b > 0
CeilDiv(a, b) == (a + b - 1) \div b

\* the (overlap_pct, main size) among the inputs of the model for which the
\* double product (overlap_pct / 100.0) * size falls just below the whole
\* number it stands for, so that int() loses one
FloatLossPairs == {<<29, 100>>, <<29, 50000>>}

\* line 186: int((overlap_pct / 100.0) * main_duration_samples)
DesiredOverlapSamples(pct, main_size) ==
    (pct * main_size) \div 100
        - (IF <<pct, main_size>> \in FloatLossPairs THEN 1 ELSE 0)

\* lines 186-200: the duration of the event before placement
OverlapDurationAlwaysClamped(pct, main_size, ov_size, sr) ==
    LET desired_overlap_samples == (pct * main_size) \div 100
        min_overlap_samples == (MIN_OVERLAP_DURATION * sr) \div 10
        max_overlap_samples == (MAX_OVERLAP_DURATION * sr) \div 10
    IN  Min2(Min2(Max2(min_overlap_samples,
                       Min2(desired_overlap_samples, max_overlap_samples)),
                  ov_size),
             main_size)

\* the same without the cap by the snippet
OverlapDurationIgnoresSnippet(pct, main_size, ov_size, sr) ==
    LET desired_overlap_samples == DesiredOverlapSamples(pct, main_size)
        min_overlap_samples == (MIN_OVERLAP_DURATION * sr) \div 10
        max_overlap_samples == (MAX_OVERLAP_DURATION * sr) \div 10
    IN  IF pct >= 100
        THEN main_size
        ELSE Min2(Max2(min_overlap_samples,
                       Min2(desired_overlap_samples, max_overlap_samples)),
                  main_size)

OverlapDuration(pct, main_size, ov_size, sr) ==
    LET desired_overlap_samples == DesiredOverlapSamples(pct, main_size)
        min_overlap_samples == (MIN_OVERLAP_DURATION * sr) \div 10
        max_overlap_samples == (MAX_OVERLAP_DURATION * sr) \div 10
    IN  IF pct >= 100
        THEN main_size
        ELSE Min2(Min2(Max2(min_overlap_samples,
                            Min2(desired_overlap_samples, max_overlap_samples)),
                       ov_size),
                  main_size)

\* lines 206-210: the duration once max_start is known
PlacedDuration(main_size, dur) ==
    IF main_size - dur <= 0 THEN main_size ELSE dur

\* lines 206-217: the start offsets np.random.randint can return
StartChoicesUniform(pct, main_size, dur) ==
    LET max_start == main_size - dur
    IN  IF max_start <= 0 THEN {0} ELSE 0 .. max_start

StartChoices(pct, main_size, dur) ==
    LET max_start == main_size - dur
    IN  IF max_start <= 0 THEN {0}
        ELSE IF pct >= 80
             THEN 0 .. (Min2(max_start \div 3 + 1, max_start + 1) - 1)
             ELSE 0 .. max_start

\* np.tile(a, reps)
Tile(a, reps) == [i \in 1..(Len(a) * reps) |-> a[((i - 1) % Len(a)) + 1]]

\* a[:k]
Prefix(a, k) == [i \in 1..Min2(k, Len(a)) |-> a[i]]

\* lines 222-230: trim, or tile and trim, the snippet to the duration
FitSegmentTileOnly(overlap_audio, dur) ==
    IF Len(overlap_audio) >= dur
    THEN Prefix(overlap_audio, dur)
    ELSE Tile(overlap_audio, CeilDiv(dur, Len(overlap_audio)))

FitSegment(overlap_audio, dur) ==
    IF Len(overlap_audio) >= dur
    THEN Prefix(overlap_audio, dur)
    ELSE Prefix(Tile(overlap_audio, CeilDiv(dur, Len(overlap_audio))), dur)

\* line 237: overlap_audio_segment * amplitude_ratio (ratio in tenths)
ScaleSegmentUnscaled(segment, ratio) == segment

ScaleSegment(segment, ratio) ==
    [i \in 1..Len(segment) |-> (segment[i] * ratio) \div 10]

\* np.clip(x, -1.0, 1.0) of one sample
Clip1(x) == IF x > 1000 THEN 1000 ELSE IF x < -1000 THEN -1000 ELSE x

\* lines 240-243: final_audio[start:end] += segment, then np.clip of the
\* whole buffer
MergeNoClip(buffer, start, end, segment) ==
    [i \in 1..Len(buffer) |->
        IF i > start /\ i <= end THEN buffer[i] + segment[i - start]
        ELSE buffer[i]]

Merge(buffer, start, end, segment) ==
    [i \in 1..Len(buffer) |->
        Clip1(IF i > start /\ i <= end THEN buffer[i] + segment[i - start]
              ELSE buffer[i])]

\* lines 175-176 and 202-203: the event is dropped (`continue`)
EventSkipped(pct, main_size, ov_size) ==
    \/ ov_size < MinSamples
    \/ OverlapDuration(pct, main_size, ov_size, SampleRate) <= 0

(***************************************************************************)
(* The generator: the state at line 133 (the main track is built and has   *)
(* at least MinSamples samples) and the overlap loop of lines 144-254.     *)
(***************************************************************************)
\* line 137: n_overlaps = np.random.randint(1, 3), the upper end excluded
OverlapCountsInclusive == {1, 2, 3}

OverlapCounts == {1, 2}

GenInit ==
    /\ overlap_pct \in PctValues
    /\ amplitude_ratio \in RatioValues
    /\ \E kind \in {1, 2}, size \in MainSizes :
           main_audio = MainAudio(kind, size)
    /\ final_audio = main_audio
    /\ n_overlaps \in OverlapCounts
    /\ overlap_idx = 0
    /\ overlap_info = <<>>
    /\ mix_log = <<>>
    /\ persisted = <<>>
    /\ gen_pc = "loop"

\* lines 147-150: random.sample raises ValueError, the loop is left
OverlapBreak ==
    /\ gen_pc = "loop"
    /\ overlap_idx < n_overlaps
    /\ gen_pc' = "persist"
    /\ UNCHANGED <<overlap_pct, amplitude_ratio, main_audio, final_audio,
                   n_overlaps, overlap_idx, overlap_info, mix_log, persisted>>
    /\ UNCHANGED notGen

\* lines 175-176, 202-203: the snippet is too short, the event is dropped
OverlapSkip ==
    /\ gen_pc = "loop"
    /\ overlap_idx < n_overlaps
    /\ \E ov_size \in OverlapSizes :
           EventSkipped(overlap_pct, Len(main_audio), ov_size)
    /\ overlap_idx' = overlap_idx + 1
    /\ UNCHANGED <<overlap_pct, amplitude_ratio, main_audio, final_audio,
                   n_overlaps, overlap_info, mix_log, persisted, gen_pc>>
    /\ UNCHANGED notGen

\* lines 180-254: one event is placed, fitted, scaled, mixed and recorded
OverlapMix ==
    /\ gen_pc = "loop"
    /\ overlap_idx < n_overlaps
    /\ \E kind \in {1, 2}, ov_size \in OverlapSizes :
         LET overlap_audio == OverlapAudio(kind, ov_size)
             main_duration_samples == Len(main_audio)
             dur0 == OverlapDuration(overlap_pct, main_duration_samples,
                                     ov_size, SampleRate)
             overlap_duration == PlacedDuration(main_duration_samples, dur0)
         IN  /\ ~EventSkipped(overlap_pct, main_duration_samples, ov_size)
             /\ \E overlap_start \in
                      StartChoices(overlap_pct, main_duration_samples, dur0) :
                  LET overlap_end == overlap_start + overlap_duration
                      segment == FitSegment(overlap_audio, overlap_duration)
                      window == Min2(overlap_end, main_duration_samples)
                                - Min2(overlap_start, main_duration_samples)
                      entry == [start |-> overlap_start,
                                end |-> overlap_end,
                                duration |-> overlap_duration,
                                segment_size |-> Len(segment),
                                window_size |-> window,
                                snippet_kind |-> kind,
                                snippet_size |-> ov_size,
                                before |-> final_audio]
                  IN  IF Len(segment) # overlap_duration \/ window # Len(segment)
                      THEN \* the assert of line 233, or numpy's shape error
                           /\ gen_pc' = "assert_failed"
                           /\ mix_log' = Append(mix_log, entry)
                           /\ UNCHANGED <<final_audio, overlap_idx, overlap_info>>
                      ELSE /\ final_audio' =
                                 Merge(final_audio, overlap_start, overlap_end,
                                       ScaleSegment(segment, amplitude_ratio))
                           /\ overlap_info' =
                                 Append(overlap_info,
                                        [start |-> overlap_start,
                                         end |-> overlap_end])
                           /\ mix_log' = Append(mix_log, entry)
                           /\ overlap_idx' = overlap_idx + 1
                           /\ UNCHANGED gen_pc
    /\ UNCHANGED <<overlap_pct, amplitude_ratio, main_audio, n_overlaps,
                   persisted>>
    /\ UNCHANGED notGen

\* the loop of line 144 ends
OverlapLoopEnd ==
    /\ gen_pc = "loop"
    /\ overlap_idx = n_overlaps
    /\ gen_pc' = "persist"
    /\ UNCHANGED <<overlap_pct, amplitude_ratio, main_audio, final_audio,
                   n_overlaps, overlap_idx, overlap_info, mix_log, persisted>>
    /\ UNCHANGED notGen

\* lines 256-299: the example is written: one "_OV<idx>" in the file name
\* and one "$OV<idx>:" marker in the transcript for each recorded event,
\* and overlap_count in the metadata
Persist ==
    /\ gen_pc = "persist"
    /\ persisted' = [name_suffixes |-> [idx \in 1..Len(overlap_info) |-> idx - 1],
                     markers |-> [idx \in 1..Len(overlap_info) |-> idx - 1],
                     overlap_count |-> Len(overlap_info)]
    /\ gen_pc' = "done"
    /\ UNCHANGED <<overlap_pct, amplitude_ratio, main_audio, final_audio,
                   n_overlaps, overlap_idx, overlap_info, mix_log>>
    /\ UNCHANGED notGen

GenNext == OverlapBreak \/ OverlapSkip \/ OverlapMix \/ OverlapLoopEnd \/ Persist

InitGen == GenInit /\ LabIdle /\ ScoIdle /\ QuIdle /\ WrkIdle /\ RunIdle
    /\ StampIdle /\ EvIdle /\ BuildIdle

SpecGen == InitGen /\ [][GenNext]_vars

(***************************************************************************)
(* extract_features_with_overlap: label derivation, lines 161-194 and      *)
(* 232-290, and parse_overlap_transcript.                                  *)
(*                                                                         *)
(* A token of gtruth is a record: kind is the token up to the first        *)
(* overlap marker ("" silence, "$" speaker boundary, "W" a word), markers  *)
(* are the "$OV<i>:<start>-<end>" markers the generator appended to it,    *)
(* each [start, end] in hundredths of a second (the two decimals written). *)
(* Frame f (0-based) is labels[f + 1].                                     *)
(***************************************************************************)
\* Bounds of the label model
MaxFrames == 3
MaxTok == 3

Kinds == {"", "$", "W"}

\* 'OV' in str(label)
IsOverlapToken(tok) == Len(tok.markers) > 0

\* the two-decimal values v below 1.00 for which v * 100 falls just below
\* the integer in double arithmetic, so that int(v * 100) loses one
TruncLoss == {29, 57, 58}

\* int(float("s.ss") * 100), lines 73-78
ToFrame(cs) == IF cs \in TruncLoss THEN cs - 1 ELSE cs

\* labels[a:b] = v for 0 <= a
SetSlice(lab, a, b, v) ==
    [f \in 1..Len(lab) |-> IF f > a /\ f <= b THEN v ELSE lab[f]]

\* lines 170-181: the boundary tokens before the first overlap token, 1 if none
RECURSIVE CountBoundaries(_, _)
CountBoundaries(toks, i) ==
    IF i > Len(toks) \/ IsOverlapToken(toks[i]) THEN 0
    ELSE (IF toks[i].kind = "$" THEN 1 ELSE 0) + CountBoundaries(toks, i + 1)

MainSpeakersCount(toks) ==
    LET c == CountBoundaries(toks, 1) IN IF c = 0 THEN 1 ELSE c

\* lines 245-254: the label one token writes, given the speaker ordinal after
\* the token has been counted
TokenLabelBoundaryAsSpeech(kind, cur, target) ==
    IF kind = "" THEN 0
    ELSE IF cur = target THEN 2 ELSE 1

TokenLabel(kind, cur, target) ==
    IF kind = "" THEN 0
    ELSE IF kind = "$" THEN 0
    ELSE IF cur = target THEN 2 ELSE 1

\* lines 240-256: the loop over zip(tstamps_frames, gtruth)
RECURSIVE BaseLoop(_, _, _, _, _, _)
BaseLoop(toks, frames, target, i, lab, st) ==
    IF i > Len(toks) THEN lab
    ELSE IF IsOverlapToken(toks[i])
         THEN BaseLoop(toks, frames, target, i + 1, lab, st)
         ELSE LET cur == IF toks[i].kind = "$" THEN st.cur + 1 ELSE st.cur
                  v == TokenLabel(toks[i].kind, cur, target)
              IN  BaseLoop(toks, frames, target, i + 1,
                           SetSlice(lab, st.prev, frames[i], v),
                           [prev |-> frames[i], cur |-> cur])

\* lines 233-256
BaseLabels(toks, stamps, target, frames_n) ==
    BaseLoop(toks, [i \in 1..Len(stamps) |-> stamps[i] \div 10], target, 1,
             [f \in 1..frames_n |-> 1], [prev |-> 0, cur |-> 0])

\* the markers of a transcript in the order they stand in it
RECURSIVE AllMarkers(_, _)
AllMarkers(toks, i) ==
    IF i > Len(toks) THEN <<>>
    ELSE toks[i].markers \o AllMarkers(toks, i + 1)

\* parse_overlap_transcript, lines 56-90: one region per marker, in the
\* order of the markers
RegionOf(m) ==
    [start_frame |-> ToFrame(m.start), end_frame |-> ToFrame(m.end),
     is_target |-> FALSE]

\* the same regions ordered by start time
ParseOverlapSortedByStart(toks) ==
    LET ms == AllMarkers(toks, 1)
        rs == [k \in 1..Len(ms) |-> RegionOf(ms[k])]
    IN  IF Len(rs) = 2 /\ rs[2].start_frame < rs[1].start_frame
        THEN <<rs[2], rs[1]>> ELSE rs

ParseOverlapTranscript(toks) ==
    LET ms == AllMarkers(toks, 1)
    IN  [k \in 1..Len(ms) |-> RegionOf(ms[k])]

\* lines 268-269
ClampStart(start_frame, frames_n) == Max2(0, Min2(start_frame, frames_n - 1))
ClampEnd(end_frame, frames_n) == Max2(0, Min2(end_frame, frames_n))

\* lines 266-284: one region applied to the labels
ApplyRegionInclusive(lab, r) ==
    LET s == ClampStart(r.start_frame, Len(lab))
        e == ClampEnd(r.end_frame, Len(lab))
        main_has_target == \E f \in (s + 1)..e : lab[f] = 2
        main_was_silent == \A f \in (s + 1)..e : lab[f] = 0
    IN  IF e > s
        THEN IF main_has_target \/ r.is_target
             THEN SetSlice(lab, s, e + 1, 2)
             ELSE IF main_was_silent THEN SetSlice(lab, s, e + 1, 1) ELSE lab
        ELSE lab

ApplyRegionTouchedOnly(lab, r) ==
    LET s == ClampStart(r.start_frame, Len(lab))
        e == ClampEnd(r.end_frame, Len(lab))
        main_has_target == \E f \in (s + 1)..e : lab[f] = 2
        main_was_silent == \A f \in (s + 1)..e : lab[f] = 0
    IN  IF e > s
        THEN IF main_has_target \/ r.is_target
             THEN [f \in 1..Len(lab) |->
                     IF f > s /\ f <= e /\ lab[f] # 0 THEN 2 ELSE lab[f]]
             ELSE IF main_was_silent THEN SetSlice(lab, s, e, 1) ELSE lab
        ELSE lab

ApplyRegion(lab, r) ==
    LET s == ClampStart(r.start_frame, Len(lab))
        e == ClampEnd(r.end_frame, Len(lab))
        main_has_target == \E f \in (s + 1)..e : lab[f] = 2
        main_was_silent == \A f \in (s + 1)..e : lab[f] = 0
    IN  IF e > s
        THEN IF main_has_target \/ r.is_target
             THEN SetSlice(lab, s, e, 2)
             ELSE IF main_was_silent THEN SetSlice(lab, s, e, 1) ELSE lab
        ELSE lab

(***************************************************************************)
(* The inputs of the label model: one record of the text file.             *)
(***************************************************************************)
\* stamps in frames: the stamps before the last are non-decreasing and lie
\* in 0..frames_n, the last one is frames_n - 1, frames_n or frames_n + 1
StampLists(k, frames_n) ==
    {st \in [1..k -> 0..(frames_n + 1)] :
        /\ \A i \in 1..(k - 1) : st[i] <= frames_n
        /\ \A i \in 1..(k - 2) : st[i] <= st[i + 1]
        /\ st[k] >= frames_n - 1}

\* the marker lists of the last token: none, any single marker with start
\* and end in 0..frames_n + 1, or two markers, each two frames long or the
\* whole record
Windows2(frames_n) ==
    {[start |-> a, end |-> a + 2] : a \in 0..(frames_n - 2)}
        \cup {[start |-> 0, end |-> frames_n]}

MarkerLists(frames_n) ==
    {<<>>}
    \cup {<<[start |-> a, end |-> b]>> :
              a \in 0..(frames_n + 1), b \in 0..(frames_n + 1)}
    \cup {<<w1, w2>> : w1 \in Windows2(frames_n), w2 \in Windows2(frames_n)}

LabInit ==
    /\ n \in {1, MaxFrames}
    /\ \E k \in 1..MaxTok :
         \E kinds \in [1..k -> Kinds], st \in StampLists(k, n),
            ms \in MarkerLists(n) :
            /\ gtruth = [i \in 1..k |->
                           [kind |-> kinds[i],
                            markers |-> IF i = k THEN ms ELSE <<>>]]
            /\ tstamps = [i \in 1..k |-> st[i] * 10]
    /\ which = 0
    /\ which_range = {}
    /\ labels = <<>>
    /\ overlap_regions = <<>>
    /\ region_idx = 0
    /\ region_log = <<>>
    /\ lab_pc = "select"

\* lines 164-194: the last stamp is raised to the end of the record and the
\* target ordinal is drawn (with TS_DROPOUT, 0 or -1 for one main speaker)
SelectTarget ==
    /\ lab_pc = "select"
    /\ tstamps' = IF tstamps[Len(tstamps)] < n * 10
                  THEN [tstamps EXCEPT ![Len(tstamps)] = n * 10]
                  ELSE tstamps
    /\ \E TS_DROPOUT \in BOOLEAN :
         LET main_speakers_count == MainSpeakersCount(gtruth)
         IN  which_range' = IF TS_DROPOUT /\ main_speakers_count = 1
                            THEN {0, -1}
                            ELSE 0..(main_speakers_count - 1)
    /\ which' \in which_range'
    /\ lab_pc' = "base"
    /\ UNCHANGED <<n, gtruth, labels, overlap_regions, region_idx, region_log>>
    /\ UNCHANGED notLab

\* lines 232-256: the base labels
LabelBase ==
    /\ lab_pc = "base"
    /\ labels' = BaseLabels(gtruth, tstamps, which, n)
    /\ lab_pc' = "parse"
    /\ UNCHANGED <<n, gtruth, tstamps, which, overlap_regions, region_idx,
                   region_log>>
    /\ UNCHANGED which_range
    /\ UNCHANGED notLab

\* lines 258-263: the overlap markers are parsed
ParseOverlap ==
    /\ lab_pc = "parse"
    /\ overlap_regions' = ParseOverlapTranscript(gtruth)
    /\ lab_pc' = "apply"
    /\ UNCHANGED <<n, gtruth, tstamps, which, labels, region_idx, region_log>>
    /\ UNCHANGED which_range
    /\ UNCHANGED notLab

\* lines 266-284: one iteration of the loop over the regions
ApplyOverlap ==
    /\ lab_pc = "apply"
    /\ region_idx < Len(overlap_regions)
    /\ labels' = ApplyRegion(labels, overlap_regions[region_idx + 1])
    /\ region_log' = Append(region_log,
                            [region |-> overlap_regions[region_idx + 1],
                             before |-> labels, after |-> labels'])
    /\ region_idx' = region_idx + 1
    /\ UNCHANGED <<n, gtruth, tstamps, which, overlap_regions, lab_pc>>
    /\ UNCHANGED which_range
    /\ UNCHANGED notLab

\* lines 286-290: the record is written
WriteLabels ==
    /\ lab_pc = "apply"
    /\ region_idx = Len(overlap_regions)
    /\ lab_pc' = "done"
    /\ UNCHANGED <<n, gtruth, tstamps, which, labels, overlap_regions,
                   region_idx, region_log>>
    /\ UNCHANGED which_range
    /\ UNCHANGED notLab

LabNext == SelectTarget \/ LabelBase \/ ParseOverlap \/ ApplyOverlap \/ WriteLabels

InitLab == LabInit /\ GenIdle /\ ScoIdle /\ QuIdle /\ WrkIdle /\ RunIdle
    /\ StampIdle /\ EvIdle /\ BuildIdle

SpecLab == InitLab /\ [][LabNext]_vars

(***************************************************************************)
(* extract_features_with_overlap: the score streams, lines 204-230.        *)
(* A score is a small integer; an entry of the linear stream is kept       *)
(* multiplied by frame_step, so that the interpolated values stay whole.   *)
(* frame_step is set outside these sources: it is an input of the model.   *)
(***************************************************************************)
\* np.ones(160): the frames the first sliced score is held for
FirstSliceFrames == 160

\* Bound of the score model: the number of sliced scores
MaxSlices == 3

ScoreValues == {1, 2, 3}
StreamValues == {0, 1}
FrameSteps == {40, 160}

\* np.kron(x, np.ones(reps)) of a sequence x
KronOnes(x, reps) ==
    [f \in 1..(Len(x) * reps) |-> x[((f - 1) \div reps) + 1]]

\* x[1:]
Rest(x) == [i \in 1..(Len(x) - 1) |-> x[i + 1]]

\* lines 210-216: the step stream
ScoresKronUniformHold(slices, step, frames_n) ==
    Prefix(KronOnes(slices, step), frames_n)

ScoresKron(slices, step, frames_n) ==
    LET first == KronOnes(<<slices[1]>>, FirstSliceFrames)
        all == IF Len(slices) > 1
               THEN first \o KronOnes(Rest(slices), step)
               ELSE first
    IN  Prefix(all, frames_n)

\* np.linspace(a, b, step, endpoint=False), every value times step
LinSpaceHold(a, b, step) == [j \in 1..step |-> a * step]

LinSpace(a, b, step) == [j \in 1..step |-> a * step + (j - 1) * (b - a)]

\* lines 219-223: the segments appended for scores_slices[1:]
RECURSIVE LinSegments(_, _, _)
LinSegments(slices, step, i) ==
    IF i >= Len(slices) THEN <<>>
    ELSE LinSpace(slices[i], slices[i + 1], step)
             \o LinSegments(slices, step, i + 1)

\* lines 218-224: the linear stream
ScoresLin(slices, step, frames_n) ==
    LET first == [f \in 1..FirstSliceFrames |-> slices[1] * step]
    IN  Prefix(first \o LinSegments(slices, step, 1), frames_n)

\* line 206: one score per embedding of the streaming sequence, which the
\* encoder service returns at frame resolution
ScoresStream(v, frames_n) == [f \in 1..frames_n |-> v]

\* line 226: np.stack takes arrays of one shape only
StackableAlways(stream, kron, lin) == TRUE

Stackable(stream, kron, lin) ==
    Len(kron) = Len(stream) /\ Len(lin) = Len(stream)

\* the frame counts tried for k sliced scores of hop step: around the first
\* window and around the full length of the expansion
FrameCounts(k, step) ==
    LET full == FirstSliceFrames + step * (k - 1)
    IN  {1, FirstSliceFrames, FirstSliceFrames + 1, full - 1, full, full + 1}

ScoInit ==
    /\ frame_step \in FrameSteps
    /\ \E k \in 1..MaxSlices :
          /\ scores_slices \in [1..k -> ScoreValues]
          /\ sco_n \in FrameCounts(k, frame_step)
    /\ \E v \in StreamValues : scores_stream = ScoresStream(v, sco_n)
    /\ scores_kron = <<>>
    /\ scores_lin = <<>>
    /\ scores = <<>>
    /\ written = <<>>
    /\ sco_pc = "expand"

\* lines 208-224: both expansions, cut to n
ExpandScores ==
    /\ sco_pc = "expand"
    /\ scores_kron' = ScoresKron(scores_slices, frame_step, sco_n)
    /\ scores_lin' = ScoresLin(scores_slices, frame_step, sco_n)
    /\ sco_pc' = "stack"
    /\ UNCHANGED <<frame_step, sco_n, scores_slices, scores_stream, scores,
                   written>>
    /\ UNCHANGED notSco

\* lines 226-230: np.stack of the three streams; arrays of different
\* lengths raise, and the record is skipped (`continue`)
StackScores ==
    /\ sco_pc = "stack"
    /\ IF Stackable(scores_stream, scores_kron, scores_lin)
       THEN /\ scores' = <<scores_stream, scores_kron, scores_lin>>
            /\ sco_pc' = "stacked"
       ELSE /\ scores' = <<>>
            /\ sco_pc' = "skipped"
    /\ UNCHANGED <<frame_step, sco_n, scores_slices, scores_kron, scores_lin,
                   scores_stream, written>>
    /\ UNCHANGED notSco

\* lines 233 and 286-289: the labels start as np.ones(n), and the features
\* (n rows), the scores and the labels are written under one id
WriteRecord ==
    /\ sco_pc = "stacked"
    /\ written' = [fbanks_rows |-> sco_n,
                   score_rows |-> Len(scores),
                   score_cols |-> {Len(scores[r]) : r \in 1..Len(scores)},
                   labels_len |-> Len([f \in 1..sco_n |-> 1])]
    /\ sco_pc' = "written"
    /\ UNCHANGED <<frame_step, sco_n, scores_slices, scores_kron, scores_lin,
                   scores_stream, scores>>
    /\ UNCHANGED notSco

ScoNext == ExpandScores \/ StackScores \/ WriteRecord

InitScore == ScoInit /\ GenIdle /\ LabIdle /\ QuIdle /\ WrkIdle /\ RunIdle
    /\ StampIdle /\ EvIdle /\ BuildIdle

SpecScore == InitScore /\ [][ScoNext]_vars

(***************************************************************************)
(* extract_features_overlap, __main__ (lines 349-370) and the exchange of  *)
(* one worker with the encoder service (lines 101 and 196-199).  The shard *)
(* files are split_0.scp .. split_<nj-1>.scp.  The service itself is       *)
(* gpu_worker of extract_features.py: it takes one request from q_send and *)
(* puts the reply on q_return[pid], pid being the shard id of the request. *)
(***************************************************************************)
\* Bounds of the queue model: the shard files, the workers that take steps
\* in one run, the records of a shard
MaxShards == 11
MaxBusy == 2
MaxRecords == 2

\* the characters of "split_<pid>.scp" after "split_", as code points
\* relative to '0': the digits of pid, then '.', which sorts below a digit
NameTail(pid) ==
    IF pid < 10 THEN <<pid, -1>> ELSE <<pid \div 10, pid % 10, -1>>

\* Python's order of two such names
NameLess(a, b) ==
    LET x == NameTail(a)
        y == NameTail(b)
    IN  \E i \in 1..Min2(Len(x), Len(y)) :
            /\ \A j \in 1..(i - 1) : x[j] = y[j]
            /\ x[i] < y[i]

\* line 351, files.sort(): the position of shard pid in files
FileIndex(pid, count) ==
    Cardinality({q \in 0..(count - 1) : NameLess(q, pid)})

\* lines 350-352
SortedFiles(count) ==
    [i \in 1..count |->
        CHOOSE pid \in 0..(count - 1) : FileIndex(pid, count) = i - 1]

\* line 368, zip(files, [q_send] * nj, q_return): the index of the return
\* queue handed to the worker of shard pid
ReturnQueueOf(pid) == CHOOSE i \in 0..(nj - 1) : files[i + 1] = pid

\* the workers that have put a request
Busy == {p \in 0..(nj - 1) : wk[p].pc # "put" \/ wk[p].rec > 0}

QuInit ==
    /\ nj \in 1..MaxShards
    /\ files = SortedFiles(nj)
    /\ q_send = <<>>
    /\ q_return = [i \in 0..(nj - 1) |-> <<>>]
    /\ \E recs \in 1..MaxRecords :
          wk = [p \in 0..(nj - 1) |-> [pc |-> "put", rec |-> 0, recs |-> recs]]
    /\ taken = <<>>

\* line 198: q_send.put((fbanks_tensor, fbanks_sliced, pid))
WorkerPut(p) ==
    /\ wk[p].pc = "put"
    /\ wk[p].rec < wk[p].recs
    /\ p \in Busy \/ Cardinality(Busy) < MaxBusy
    /\ q_send' = Append(q_send, [pid |-> p, rec |-> wk[p].rec])
    /\ wk' = [wk EXCEPT ![p].pc = "get"]
    /\ UNCHANGED <<files, nj, q_return, taken>>
    /\ UNCHANGED notQu

\* line 199: q_return.get() on the queue the worker was handed
WorkerGet(p) ==
    /\ wk[p].pc = "get"
    /\ q_return[ReturnQueueOf(p)] # <<>>
    /\ LET reply == Head(q_return[ReturnQueueOf(p)])
       IN  taken' = Append(taken, [by |-> p, rec |-> wk[p].rec,
                                   reply |-> reply])
    /\ q_return' = [q_return EXCEPT
                       ![ReturnQueueOf(p)] = Tail(q_return[ReturnQueueOf(p)])]
    /\ wk' = [wk EXCEPT ![p].pc = "put", ![p].rec = wk[p].rec + 1]
    /\ UNCHANGED <<files, nj, q_send>>
    /\ UNCHANGED notQu

\* the encoder service: one request is taken from q_send and answered on
\* the return queue its shard id selects
Serve ==
    /\ q_send # <<>>
    /\ LET req == Head(q_send)
       IN  q_return' = [q_return EXCEPT
                           ![req.pid] = Append(q_return[req.pid],
                                               [pid |-> req.pid,
                                                rec |-> req.rec])]
    /\ q_send' = Tail(q_send)
    /\ UNCHANGED <<files, nj, wk, taken>>
    /\ UNCHANGED notQu

QuNext ==
    \/ \E p \in 0..(nj - 1) : WorkerPut(p)
    \/ \E p \in 0..(nj - 1) : WorkerGet(p)
    \/ Serve

InitQueue == QuInit /\ GenIdle /\ LabIdle /\ ScoIdle /\ WrkIdle /\ RunIdle
    /\ StampIdle /\ EvIdle /\ BuildIdle

SpecQueue == InitQueue /\ [][QuNext]_vars

\* the same program with shards of different lengths: wk[p].recs is the
\* number of records of shard p that reach line 198, none when the shard
\* is empty or all its records are skipped before; at most MaxBusy shards
\* have such records
QuInitShards ==
    /\ nj \in 1..MaxShards
    /\ files = SortedFiles(nj)
    /\ q_send = <<>>
    /\ q_return = [i \in 0..(nj - 1) |-> <<>>]
    /\ \E recs \in [0..(nj - 1) -> 0..MaxRecords] :
          /\ Cardinality({p \in 0..(nj - 1) : recs[p] > 0}) <= MaxBusy
          /\ wk = [p \in 0..(nj - 1) |->
                     [pc |-> "put", rec |-> 0, recs |-> recs[p]]]
    /\ taken = <<>>

InitQueueFair == QuInitShards /\ GenIdle /\ LabIdle /\ ScoIdle /\ WrkIdle
    /\ RunIdle /\ StampIdle /\ EvIdle /\ BuildIdle

\* lines 360-369: the service and every worker are processes of their own,
\* each scheduled again and again by the operating system, and a
\* manager.Queue hands an item to a waiting get(): a step that stays
\* possible is taken
Fairness ==
    /\ WF_vars(Serve)
    /\ \A p \in 0..(MaxShards - 1) :
          /\ WF_vars(p < nj /\ WorkerPut(p))
          /\ WF_vars(p < nj /\ WorkerGet(p))

SpecQueueFair == InitQueueFair /\ [][QuNext]_vars /\ Fairness

(***************************************************************************)
(* extract_features_with_overlap, lines 108-314: the loop of one worker    *)
(* over the records of its shard.  A record is what decides the path of    *)
(* its iteration: whether next(wav_iter) yields it, whether the item       *)
(* unpacks, whether txt holds its key, the lengths of its transcript and   *)
(* of its timestamps, and whether its three score arrays stack.            *)
(***************************************************************************)
\* Bound of the worker model: the records of a shard
MaxShardLen == 3

WellFormed ==
    [readable |-> TRUE, unpacks |-> TRUE, in_txt |-> TRUE,
     gt_len |-> 2, tstamps_size |-> 2, stackable |-> TRUE]

RecordKinds ==
    {WellFormed,
     [WellFormed EXCEPT !.readable = FALSE],
     [WellFormed EXCEPT !.unpacks = FALSE],
     [WellFormed EXCEPT !.in_txt = FALSE],
     [WellFormed EXCEPT !.tstamps_size = 3],
     [WellFormed EXCEPT !.stackable = FALSE]}

WrkInit ==
    /\ \E k \in 0..MaxShardLen : wav_scp \in [1..k -> RecordKinds]
    /\ wav_pos = 0
    /\ outcomes = <<>>
    /\ utter_count = 0
    /\ wrk_pc = "loop"
    /\ array_writer = <<>>
    /\ score_writer = <<>>
    /\ label_writer = <<>>
    /\ target_writer = <<>>

\* lines 226-230: np.stack of the three score streams succeeds
StacksAlways(item) == TRUE

Stacks(item) == item.stackable

\* the record of the iteration that starts now
\* (its utt_id is taken to be its position in the shard)
Item == wav_scp[wav_pos + 1]

\* lines 112-115 and 309-314: StopIteration, the files are closed
CloseShard ==
    /\ wrk_pc = "loop"
    /\ wav_pos = Len(wav_scp)
    /\ wrk_pc' = "closed"
    /\ UNCHANGED <<wav_scp, wav_pos, outcomes, utter_count>>
    /\ UNCHANGED writerVars
    /\ UNCHANGED notWrk

\* lines 116-118: next(wav_iter) raises, `continue`
SkipUnreadable ==
    /\ wrk_pc = "loop"
    /\ wav_pos < Len(wav_scp)
    /\ ~Item.readable
    /\ wav_pos' = wav_pos + 1
    /\ outcomes' = Append(outcomes, "skipped")
    /\ UNCHANGED <<wav_scp, utter_count, wrk_pc>>
    /\ UNCHANGED writerVars
    /\ UNCHANGED notWrk

\* lines 120-124: the item does not unpack, `continue`
SkipBadItem ==
    /\ wrk_pc = "loop"
    /\ wav_pos < Len(wav_scp)
    /\ Item.readable /\ ~Item.unpacks
    /\ wav_pos' = wav_pos + 1
    /\ outcomes' = Append(outcomes, "skipped")
    /\ UNCHANGED <<wav_scp, utter_count, wrk_pc>>
    /\ UNCHANGED writerVars
    /\ UNCHANGED notWrk

\* lines 127-131: txt[utt_id] raises, `continue`
SkipMissingKey ==
    /\ wrk_pc = "loop"
    /\ wav_pos < Len(wav_scp)
    /\ Item.readable /\ Item.unpacks /\ ~Item.in_txt
    /\ wav_pos' = wav_pos + 1
    /\ outcomes' = Append(outcomes, "skipped")
    /\ UNCHANGED <<wav_scp, utter_count, wrk_pc>>
    /\ UNCHANGED writerVars
    /\ UNCHANGED notWrk

\* lines 133-134: `assert gt_len == tstamps.size` stands in no try block;
\* the AssertionError leaves the function
AssertLengths ==
    /\ wrk_pc = "loop"
    /\ wav_pos < Len(wav_scp)
    /\ Item.readable /\ Item.unpacks /\ Item.in_txt
    /\ Item.gt_len # Item.tstamps_size
    /\ wav_pos' = wav_pos + 1
    /\ outcomes' = Append(outcomes, "raised")
    /\ wrk_pc' = "aborted"
    /\ UNCHANGED <<wav_scp, utter_count>>
    /\ UNCHANGED writerVars
    /\ UNCHANGED notWrk

\* lines 208-230: the scores do not stack, `continue`
SkipScores ==
    /\ wrk_pc = "loop"
    /\ wav_pos < Len(wav_scp)
    /\ Item.readable /\ Item.unpacks /\ Item.in_txt
    /\ Item.gt_len = Item.tstamps_size
    /\ ~Stacks(Item)
    /\ wav_pos' = wav_pos + 1
    /\ outcomes' = Append(outcomes, "skipped")
    /\ UNCHANGED <<wav_scp, utter_count, wrk_pc>>
    /\ UNCHANGED writerVars
    /\ UNCHANGED notWrk

\* lines 232-293: the record is labelled and written
WriteOutputs ==
    /\ wrk_pc = "loop"
    /\ wav_pos < Len(wav_scp)
    /\ Item.readable /\ Item.unpacks /\ Item.in_txt
    /\ Item.gt_len = Item.tstamps_size
    /\ Stacks(Item)
    /\ wav_pos' = wav_pos + 1
    /\ outcomes' = Append(outcomes, "written")
    /\ array_writer' = Append(array_writer, wav_pos + 1)
    /\ score_writer' = Append(score_writer, wav_pos + 1)
    /\ label_writer' = Append(label_writer, wav_pos + 1)
    /\ target_writer' = Append(target_writer, wav_pos + 1)
    /\ utter_count' = utter_count + 1
    /\ UNCHANGED <<wav_scp, wrk_pc>>
    /\ UNCHANGED notWrk

WrkNext ==
    \/ CloseShard \/ SkipUnreadable \/ SkipBadItem \/ SkipMissingKey
    \/ AssertLengths \/ SkipScores \/ WriteOutputs

InitWorker == WrkInit /\ GenIdle /\ LabIdle /\ ScoIdle /\ QuIdle /\ RunIdle
    /\ StampIdle /\ EvIdle /\ BuildIdle

SpecWorker == InitWorker /\ [][WrkNext]_vars

(***************************************************************************)
(* generate_overlapping_utterances.py, one run: __main__ (lines 326-386)   *)
(* and the loop of generate_overlapping_utterances over the pool (lines    *)
(* 70-92, 129-158 and 256-302).  An utterance is <<speaker, k>>; the pool  *)
(* maps each speaker still in it to the set of its unconsumed utterances.  *)
(***************************************************************************)
\* Bound of the run model: the speakers of the corpus
MaxSpeakers == 3

\* the arguments tried, and the utterances a speaker can have
PctArgs == {-1, 0, 100, 101}
RatioArgs == {-1, 0, 15}
CountArgs == {1, 2}
UttIds == {1, 2}
Utterances == (1..MaxSpeakers) \X UttIds

\* the pools load_dataset_structure can return: every speaker has at least
\* one utterance
Pools ==
    UNION {[1..ns -> {{1}, UttIds}] : ns \in 1..MaxSpeakers}

\* lines 342-355: the three checks that end in sys.exit(1)
ValidClosedPath(a) ==
    /\ 0 <= a.overlap_pct /\ a.overlap_pct <= 100
    /\ a.amplitude_ratio >= 0

Valid(a) ==
    /\ 0 <= a.overlap_pct /\ a.overlap_pct <= 100
    /\ a.amplitude_ratio >= 0
    /\ a.dest_abs

\* lines 88-92 and 154-158: the chosen utterance of every sampled speaker is
\* removed from its list, and a speaker whose list is empty from the pool
RemoveDrawnKeepSpeaker(pool, speakers, choice) ==
    [sp \in DOMAIN pool |->
        IF sp \in speakers THEN pool[sp] \ {choice[sp]} ELSE pool[sp]]

RemoveDrawn(pool, speakers, choice) ==
    LET cut == [sp \in DOMAIN pool |->
                  IF sp \in speakers THEN pool[sp] \ {choice[sp]}
                  ELSE pool[sp]]
    IN  [sp \in {t \in DOMAIN pool : cut[t] # {}} |-> cut[sp]]

\* the history of the draws
CountDrawn(d, speakers, choice) ==
    [u \in Utterances |->
        IF u[1] \in speakers /\ choice[u[1]] = u[2] THEN d[u] + 1 ELSE d[u]]

\* random.sample(dataset, k) and random.choice(speaker[1]) for each
Draws(pool, k) ==
    {[speakers |-> sps, choice |-> ch] :
        sps \in {x \in SUBSET DOMAIN pool : Cardinality(x) = k},
        ch \in [DOMAIN pool -> UttIds]}

RunInit ==
    /\ args \in [overlap_pct : PctArgs, amplitude_ratio : RatioArgs,
                  dest_abs : BOOLEAN, count : CountArgs]
    /\ dataset = <<>>
    /\ drawn = [u \in Utterances |-> 0]
    /\ iteration = 0
    /\ ov_left = 0
    /\ generated = 0
    /\ reported = -1
    /\ effects = {}
    /\ depleted = FALSE
    /\ run_pc = "validate"
    /\ main_speakers_ids = {}
    /\ overlap_speakers_ids = {}

\* lines 341-355
Validate ==
    /\ run_pc = "validate"
    /\ run_pc' = IF Valid(args) THEN "load" ELSE "exit1"
    /\ UNCHANGED <<args, dataset, drawn, iteration, ov_left, generated,
                   reported, effects, depleted>>
    /\ UNCHANGED speakerVars
    /\ UNCHANGED notRun

\* line 363
LoadDataset ==
    /\ run_pc = "load"
    /\ dataset' \in Pools
    /\ effects' = effects \cup {"loaded"}
    /\ run_pc' = "mkdir"
    /\ UNCHANGED <<args, drawn, iteration, ov_left, generated, reported,
                   depleted>>
    /\ UNCHANGED speakerVars
    /\ UNCHANGED notRun

\* lines 365-375: dest is absent, an empty directory, a file or a non-empty
\* directory, or cannot be created
CreateDest ==
    /\ run_pc = "mkdir"
    /\ \E dest \in {"absent", "empty", "occupied", "uncreatable"} :
          IF dest \in {"occupied", "uncreatable"}
          THEN run_pc' = "exit1" /\ UNCHANGED effects
          ELSE run_pc' = "open" /\ effects' = effects \cup {"dest"}
    /\ UNCHANGED <<args, dataset, drawn, iteration, ov_left, generated,
                   reported, depleted>>
    /\ UNCHANGED speakerVars
    /\ UNCHANGED notRun

\* lines 377-384: the index files are created and the generator is called
OpenIndex ==
    /\ run_pc = "open"
    /\ effects' = effects \cup {"index"}
    /\ run_pc' = "main"
    /\ UNCHANGED <<args, dataset, drawn, iteration, ov_left, generated,
                   reported, depleted>>
    /\ UNCHANGED speakerVars
    /\ UNCHANGED notRun

\* lines 70-92: the main speakers are sampled and one utterance of each is
\* drawn; ValueError ends the function
DrawMain ==
    /\ run_pc = "main"
    /\ iteration < args.count
    /\ \E n_main_speakers \in 1..3 :
          IF n_main_speakers > Cardinality(DOMAIN dataset)
          THEN /\ depleted' = TRUE
               /\ run_pc' = "report"
               /\ UNCHANGED <<dataset, drawn, main_speakers_ids,
                              overlap_speakers_ids>>
          ELSE \E d \in Draws(dataset, n_main_speakers) :
                 /\ \A sp \in d.speakers : d.choice[sp] \in dataset[sp]
                 /\ dataset' = RemoveDrawn(dataset, d.speakers, d.choice)
                 /\ drawn' = CountDrawn(drawn, d.speakers, d.choice)
                 /\ main_speakers_ids' = d.speakers
                 /\ overlap_speakers_ids' = {}
                 /\ run_pc' = "built"
                 /\ UNCHANGED depleted
    /\ UNCHANGED <<args, iteration, ov_left, generated, reported, effects>>
    /\ UNCHANGED notRun

\* lines 108-110 and 129-131: the main track is too short, `continue`
SkipIteration ==
    /\ run_pc = "built"
    /\ iteration' = iteration + 1
    /\ run_pc' = "main"
    /\ UNCHANGED <<args, dataset, drawn, ov_left, generated, reported,
                   effects, depleted>>
    /\ main_speakers_ids' = {}
    /\ overlap_speakers_ids' = {}
    /\ UNCHANGED notRun

\* lines 133-142
StartOverlaps ==
    /\ run_pc = "built"
    /\ ov_left' \in {1, 2}
    /\ run_pc' = "overlap"
    /\ UNCHANGED <<args, dataset, drawn, iteration, generated, reported,
                   effects, depleted>>
    /\ UNCHANGED speakerVars
    /\ UNCHANGED notRun

\* lines 144-254: one pass of the overlap loop; ValueError leaves the loop
DrawOverlap ==
    /\ run_pc = "overlap"
    /\ ov_left > 0
    /\ \E n_overlap_speakers \in {1, 2} :
          IF n_overlap_speakers > Cardinality(DOMAIN dataset)
          THEN /\ ov_left' = 0
               /\ UNCHANGED <<dataset, drawn, overlap_speakers_ids>>
          ELSE \E d \in Draws(dataset, n_overlap_speakers) :
                 /\ \A sp \in d.speakers : d.choice[sp] \in dataset[sp]
                 /\ dataset' = RemoveDrawn(dataset, d.speakers, d.choice)
                 /\ drawn' = CountDrawn(drawn, d.speakers, d.choice)
                 /\ ov_left' = ov_left - 1
                 /\ \E recorded \in BOOLEAN :
                       overlap_speakers_ids' =
                           IF recorded
                           THEN overlap_speakers_ids \cup d.speakers
                           ELSE overlap_speakers_ids
    /\ UNCHANGED <<args, iteration, generated, reported, effects, depleted,
                   run_pc>>
    /\ UNCHANGED main_speakers_ids
    /\ UNCHANGED notRun

\* lines 256-302: the example is written
PersistExample ==
    /\ run_pc = "overlap"
    /\ ov_left = 0
    /\ generated' = generated + 1
    /\ iteration' = iteration + 1
    /\ run_pc' = "main"
    /\ UNCHANGED <<args, dataset, drawn, ov_left, reported, effects, depleted>>
    /\ main_speakers_ids' = {}
    /\ overlap_speakers_ids' = {}
    /\ UNCHANGED notRun

\* line 70: range(n) is exhausted
LoopDone ==
    /\ run_pc = "main"
    /\ iteration = args.count
    /\ run_pc' = "report"
    /\ UNCHANGED <<args, dataset, drawn, iteration, ov_left, generated,
                   reported, effects, depleted>>
    /\ UNCHANGED speakerVars
    /\ UNCHANGED notRun

\* line 386: print(f"Generated {N} overlapping utterances in {dest}")
Report ==
    /\ run_pc = "report"
    /\ reported' = args.count
    /\ run_pc' = "exit0"
    /\ UNCHANGED <<args, dataset, drawn, iteration, ov_left, generated,
                   effects, depleted>>
    /\ UNCHANGED speakerVars
    /\ UNCHANGED notRun

RunNext ==
    \/ Validate \/ LoadDataset \/ CreateDest \/ OpenIndex \/ DrawMain
    \/ SkipIteration \/ StartOverlaps \/ DrawOverlap \/ PersistExample
    \/ LoopDone \/ Report

InitRun == RunInit /\ GenIdle /\ LabIdle /\ ScoIdle /\ QuIdle /\ WrkIdle
    /\ StampIdle /\ EvIdle /\ BuildIdle

SpecRun == InitRun /\ [][RunNext]_vars

(***************************************************************************)
(* generate_overlapping_utterances, lines 94-133: the timestamps of the    *)
(* main track.  Times are whole milliseconds.  An utterance is its stamps  *)
(* (utterance[3]) and the end stamp trim_utt_end returns for it; the       *)
(* stamps are non-decreasing and those before the last lie at or below the *)
(* end stamp.                                                              *)
(***************************************************************************)
\* n_main_speakers = np.random.randint(1, 4): at most 3 main utterances
MaxMainUtterances == 3

\* Bound of the timestamp model: the stamps of one utterance
MaxStamps == 2

StampValues == {400, 1204, 1500}

\* round(x, 2) of a time in milliseconds, ties to even
Round2(ms) ==
    LET q == ms \div 10
        r == ms % 10
    IN  IF r < 5 THEN q * 10
        ELSE IF r > 5 THEN (q + 1) * 10
        ELSE IF q % 2 = 0 THEN q * 10 ELSE (q + 1) * 10

\* round(x) of a time in milliseconds: Python rounds to the nearest whole
\* number of seconds, ties to even
RoundSeconds(ms) ==
    LET q == ms \div 1000
        r == ms % 1000
    IN  IF r < 500 THEN q * 1000
        ELSE IF r > 500 THEN (q + 1) * 1000
        ELSE IF q % 2 = 0 THEN q * 1000 ELSE (q + 1) * 1000

SourceUtterances ==
    {u \in [stamps : UNION {[1..k -> StampValues] : k \in 1..MaxStamps},
            end_stamp : StampValues] :
        /\ \A i \in 1..(Len(u.stamps) - 1) :
              u.stamps[i] <= u.stamps[i + 1] /\ u.stamps[i] <= u.end_stamp}

\* lines 117-123: main_tstamps.pop() and the stamps offset by the running
\* duration, or the stamps as they are for the first utterance
OffsetStamps(tst, stamps, prev) ==
    IF tst # <<>>
    THEN SubSeq(tst, 1, Len(tst) - 1)
            \o [i \in 1..Len(stamps) |-> Round2(stamps[i] + prev)]
    ELSE stamps

\* line 126: main_tstamps[-1] = str(round(prev_end_stamp))
ForceLast(tst, total) == [tst EXCEPT ![Len(tst)] = RoundSeconds(total)]

StampInit ==
    /\ \E k \in 1..MaxMainUtterances :
          main_utterances \in [1..k -> SourceUtterances]
    /\ utt_idx = 0
    /\ main_tstamps = <<>>
    /\ prev_end_stamp = 0
    /\ stamp_pc = "build"

\* lines 101-127: one utterance is appended
AppendUtterance ==
    /\ stamp_pc = "build"
    /\ utt_idx < Len(main_utterances)
    /\ LET utterance == main_utterances[utt_idx + 1]
           total == prev_end_stamp + utterance.end_stamp
       IN  /\ main_tstamps' =
                 ForceLast(OffsetStamps(main_tstamps, utterance.stamps,
                                        prev_end_stamp), total)
           /\ prev_end_stamp' = total
    /\ utt_idx' = utt_idx + 1
    /\ UNCHANGED <<main_utterances, stamp_pc>>
    /\ UNCHANGED notStamp

\* lines 108-110 and 129-131: a trimmed utterance has fewer than 100
\* samples, the iteration is skipped
TooShort ==
    /\ stamp_pc = "build"
    /\ utt_idx < Len(main_utterances)
    /\ stamp_pc' = "skipped"
    /\ UNCHANGED <<main_utterances, utt_idx, main_tstamps, prev_end_stamp>>
    /\ UNCHANGED notStamp

\* lines 133-141 and 288: the timestamps go to the example as they are
KeepStamps ==
    /\ stamp_pc = "build"
    /\ utt_idx = Len(main_utterances)
    /\ stamp_pc' = "done"
    /\ UNCHANGED <<main_utterances, utt_idx, main_tstamps, prev_end_stamp>>
    /\ UNCHANGED notStamp

StampNext == AppendUtterance \/ TooShort \/ KeepStamps

InitStamps == StampInit /\ GenIdle /\ LabIdle /\ ScoIdle /\ QuIdle /\ WrkIdle
    /\ RunIdle /\ EvIdle /\ BuildIdle

SpecStamps == InitStamps /\ [][StampNext]_vars

(***************************************************************************)
(* generate_overlapping_utterances, lines 175-254, for one event given by  *)
(* overlap_pct and the sizes of the main track and of the snippet: the     *)
(* duration, the start and the end, at sizes where the limits of 0.5 s and *)
(* 3.0 s (8000 and 48000 samples) take part.  No audio is held here.       *)
(***************************************************************************)
EventPcts == {29, 80, 99, 100}
EventMainSizes == {100, 104, 9000, 50000}
EventSnippetSizes == {99, 100, 8500, 60000}

EvInit ==
    /\ event_in \in [overlap_pct : EventPcts, main_size : EventMainSizes,
                      snippet_size : EventSnippetSizes]
    /\ event_out = <<>>
    /\ event_pc = "duration"

\* lines 175-176 and 202-203: the event is passed over
EventPassedOver ==
    /\ event_pc = "duration"
    /\ EventSkipped(event_in.overlap_pct, event_in.main_size,
                    event_in.snippet_size)
    /\ event_pc' = "skipped"
    /\ UNCHANGED <<event_in, event_out>>
    /\ UNCHANGED notEv

\* lines 180-200: the duration before placement
ComputeDuration ==
    /\ event_pc = "duration"
    /\ ~EventSkipped(event_in.overlap_pct, event_in.main_size,
                     event_in.snippet_size)
    /\ event_out' =
          [overlap_duration |->
              OverlapDuration(event_in.overlap_pct, event_in.main_size,
                              event_in.snippet_size, SampleRate)]
    /\ event_pc' = "place"
    /\ UNCHANGED event_in
    /\ UNCHANGED notEv

\* lines 205-254: the start is drawn, the snippet is trimmed or tiled
\* (line 222 decides which), and the event is recorded
PlaceEvent ==
    /\ event_pc = "place"
    /\ \E overlap_start \in
             StartChoices(event_in.overlap_pct, event_in.main_size,
                          event_out.overlap_duration) :
          LET overlap_duration ==
                  PlacedDuration(event_in.main_size, event_out.overlap_duration)
          IN  event_out' =
                  [overlap_duration |-> overlap_duration,
                   overlap_start |-> overlap_start,
                   overlap_end |-> overlap_start + overlap_duration,
                   tiled |-> ~(event_in.snippet_size >= overlap_duration)]
    /\ event_pc' = "recorded"
    /\ UNCHANGED event_in
    /\ UNCHANGED notEv

EvNext == EventPassedOver \/ ComputeDuration \/ PlaceEvent

InitEvent == EvInit /\ GenIdle /\ LabIdle /\ ScoIdle /\ QuIdle /\ WrkIdle
    /\ RunIdle /\ StampIdle /\ BuildIdle

SpecEvent == InitEvent /\ [][EvNext]_vars

(***************************************************************************)
(* generate_overlapping_utterances, lines 94-131 and 256-299: the length   *)
(* of the main track of one iteration, and whether the iteration writes.   *)
(* Only the lengths of the trimmed utterances are held.                    *)
(***************************************************************************)
TrimmedSizes == {0, 50, 99, 100, 150}

ExampleFiles == {"flac", "wav_scp", "utt2spk", "text", "metadata"}

\* lines 106-110: main_audio.size once x has been appended and tested; the
\* short utterance is dropped with all that was appended before it
MainSizeKeepsShort(size, x) == size + x

MainSize(size, x) == IF x < MinSamples THEN 0 ELSE size + x

BuildInit ==
    /\ \E k \in 1..MaxMainUtterances :
          trimmed_sizes \in [1..k -> TrimmedSizes]
    /\ build_idx = 0
    /\ main_audio_size = 0
    /\ build_written = {}
    /\ build_pc = "loop"

\* lines 101-127: one pass of the loop over the main utterances; an
\* utterance of fewer than 100 samples ends the loop (line 110)
ReadUtterance ==
    /\ build_pc = "loop"
    /\ build_idx < Len(trimmed_sizes)
    /\ LET x == trimmed_sizes[build_idx + 1]
       IN  /\ main_audio_size' = MainSize(main_audio_size, x)
           /\ build_pc' = IF x < MinSamples \/ build_idx + 1 = Len(trimmed_sizes)
                          THEN "check" ELSE "loop"
    /\ build_idx' = build_idx + 1
    /\ UNCHANGED <<trimmed_sizes, build_written>>
    /\ UNCHANGED notBuild

\* lines 129-131: the main track is too short, the iteration is skipped
RejectIteration ==
    /\ build_pc = "check"
    /\ main_audio_size < MinSamples
    /\ build_pc' = "skipped"
    /\ UNCHANGED <<trimmed_sizes, build_idx, main_audio_size, build_written>>
    /\ UNCHANGED notBuild

\* lines 133-299: the events are mixed and the example is written: the
\* audio file, the three index lines and the metadata file
WriteExample ==
    /\ build_pc = "check"
    /\ ~(main_audio_size < MinSamples)
    /\ build_written' = ExampleFiles
    /\ build_pc' = "persisted"
    /\ UNCHANGED <<trimmed_sizes, build_idx, main_audio_size>>
    /\ UNCHANGED notBuild

BuildNext == ReadUtterance \/ RejectIteration \/ WriteExample

InitBuild == BuildInit /\ GenIdle /\ LabIdle /\ ScoIdle /\ QuIdle /\ WrkIdle
    /\ RunIdle /\ StampIdle /\ EvIdle

SpecBuild == InitBuild /\ [][BuildNext]_vars

(***************************************************************************)
(* Properties of the generator, checked under SpecGen.                     *)
(***************************************************************************)
\* the scaled snippet sample that event h adds at buffer index i (1-based),
\* written out from the event's inputs: 0 outside the window
PlacedSample(h, i) ==
    IF i > h.start /\ i <= h.end
    THEN (OverlapSample(h.snippet_kind,
                        ((i - h.start - 1) % h.snippet_size) + 1)
          * amplitude_ratio) \div 10
    ELSE 0

Mixed == gen_pc # "assert_failed"

\* C1: after every merge (and before the first) every sample of the whole
\* mixed buffer lies in [-1, 1]
C1_ClipInvariant ==
    \A i \in 1..Len(final_audio) :
        final_audio[i] >= -1000 /\ final_audio[i] <= 1000

\* C1 witness: two events are merged and a sum left [-1, 1] before the clip
C1_Witness ==
    /\ Len(overlap_info) = 2
    /\ \E k \in 1..2 : \E i \in 1..Len(final_audio) :
           mix_log[k].before[i] + PlacedSample(mix_log[k], i) > 1000

\* C2: the segment that is added has exactly overlap_duration samples, the
\* window it is added to has the same length, and the shape assertion holds
C2_SegmentLength ==
    /\ gen_pc # "assert_failed"
    /\ \A k \in 1..Len(mix_log) :
           /\ mix_log[k].segment_size = mix_log[k].duration
           /\ mix_log[k].window_size = mix_log[k].duration
           /\ mix_log[k].end - mix_log[k].start = mix_log[k].duration

\* C2 witness: an event whose snippet was tiled and then cut inside a tile
C2_Witness ==
    \E k \in 1..Len(overlap_info) :
        /\ mix_log[k].snippet_size < mix_log[k].duration
        /\ mix_log[k].duration % mix_log[k].snippet_size # 0

\* C3: at overlap_pct = 100 every mixed event starts at sample 0 and lasts
\* exactly as long as the main track
C3_FullOverlap ==
    overlap_pct = 100 =>
        \A k \in 1..Len(overlap_info) :
            /\ overlap_info[k].start = 0
            /\ overlap_info[k].end = Len(main_audio)
            /\ mix_log[k].duration = Len(main_audio)

\* C3 witness: at 100 % a snippet shorter than the main track and a snippet
\* longer than it have both been mixed
C3_Witness ==
    /\ overlap_pct = 100
    /\ Len(overlap_info) = 2
    /\ mix_log[1].snippet_size < Len(main_audio)
    /\ mix_log[2].snippet_size > Len(main_audio)

\* C9: each merge is clip(buffer + ratio x segment at the window) of the
\* buffer left by the previous event: after one event the buffer is
\* clip(main + e1), after two clip(clip(main + e1) + e2), and a window sample
\* whose sum has magnitude <= 1 is that sum
C9_CumulativeClip ==
    Mixed =>
      /\ Len(mix_log) >= 1 =>
           \A i \in 1..Len(main_audio) :
             LET s1 == main_audio[i] + PlacedSample(mix_log[1], i)
                 c1 == IF s1 > 1000 THEN 1000
                       ELSE IF s1 < -1000 THEN -1000 ELSE s1
             IN  /\ Len(mix_log) = 1 => final_audio[i] = c1
                 /\ (Len(mix_log) = 1 /\ s1 >= -1000 /\ s1 <= 1000)
                        => final_audio[i] = s1
                 /\ Len(mix_log) = 2 =>
                      LET s2 == c1 + PlacedSample(mix_log[2], i)
                      IN  final_audio[i] =
                            IF s2 > 1000 THEN 1000
                            ELSE IF s2 < -1000 THEN -1000 ELSE s2
      /\ \A k \in 1..Len(mix_log) : mix_log[k].before =
             IF k = 1 THEN main_audio
             ELSE [i \in 1..Len(main_audio) |->
                     LET s1 == main_audio[i] + PlacedSample(mix_log[1], i)
                     IN  IF s1 > 1000 THEN 1000
                         ELSE IF s1 < -1000 THEN -1000 ELSE s1]

\* C9 witness: two events are merged, one window sample is an unclipped sum
\* with a non-zero overlap part, and clipping after each event gives another
\* buffer than clipping once at the end
C9_Witness ==
    /\ Len(overlap_info) = 2
    /\ amplitude_ratio = 7
    /\ \E i \in 1..Len(main_audio) :
          LET once == main_audio[i] + PlacedSample(mix_log[1], i)
                      + PlacedSample(mix_log[2], i)
              c == IF once > 1000 THEN 1000
                   ELSE IF once < -1000 THEN -1000 ELSE once
          IN  final_audio[i] # c
    /\ \E i \in 1..Len(main_audio) :
          /\ PlacedSample(mix_log[2], i) # 0
          /\ final_audio[i] = mix_log[2].before[i] + PlacedSample(mix_log[2], i)

\* C20 as stated: every written example carries 1 or 2 overlap events
C20_OneOrTwoEvents ==
    gen_pc = "done" =>
        /\ Len(persisted.markers) \in {1, 2}
        /\ persisted.overlap_count \in {1, 2}

\* C20 amended: 1 or 2 events are chosen for an example; it is written with
\* one marker for each event that was mixed, which are at most the events
\* chosen, so with 0, 1 or 2, and overlap_count is that number
C20_AtMostTheEventsChosen ==
    /\ n_overlaps \in {1, 2}
    /\ Len(overlap_info) = Len(mix_log) \/ gen_pc = "assert_failed"
    /\ gen_pc = "done" =>
          /\ Len(persisted.markers) = Len(overlap_info)
          /\ persisted.overlap_count = Len(overlap_info)
          /\ Len(persisted.name_suffixes) = Len(overlap_info)
          /\ Len(overlap_info) <= overlap_idx
          /\ overlap_idx <= n_overlaps
          /\ persisted.overlap_count \in {0, 1, 2}

\* C20 witness: an example for which 2 events were chosen and both were
\* passed over is written without a marker
C20_Witness ==
    /\ gen_pc = "done"
    /\ n_overlaps = 2 /\ overlap_idx = 2
    /\ persisted.overlap_count = 0
    /\ persisted.markers = <<>>

(***************************************************************************)
(* Properties of the label derivation, checked under SpecLab.              *)
(***************************************************************************)
\* token i covers frame f (0-based): f lies between the previous stamp and
\* the token's own stamp, in frames
Covers(i, f) ==
    /\ (IF i = 1 THEN 0 ELSE tstamps[i - 1] \div 10) <= f
    /\ f < tstamps[i] \div 10

\* the speaker ordinal at token i: the boundary tokens up to and with i
Ordinal(i) == Cardinality({j \in 1..i : gtruth[j].kind = "$"})

NoMarkers == \A i \in 1..Len(gtruth) : gtruth[i].markers = <<>>

LoFrame(r) ==
    LET a == IF r.start_frame < n - 1 THEN r.start_frame ELSE n - 1
    IN  IF a < 0 THEN 0 ELSE a
HiFrame(r) ==
    LET b == IF r.end_frame < n THEN r.end_frame ELSE n
    IN  IF b < 0 THEN 0 ELSE b

\* C5: a single non-degenerate event whose region (start and end clamped to
\* [0, n]) holds no target speech leaves every frame of the region at 1
C5_RegionBecomesNonTarget ==
    Len(region_log) >= 1 =>
        LET e == region_log[1]
            lo == IF e.region.start_frame < n THEN e.region.start_frame ELSE n
            hi == IF e.region.end_frame < n THEN e.region.end_frame ELSE n
        IN  (hi > lo /\ \A f \in (lo + 1)..hi : e.before[f] # 2)
                => \A f \in (lo + 1)..hi : e.after[f] = 1

\* C6: an event whose region holds a target-speech frame leaves every frame
\* of the region at 2, and labels that are all 2 stay all 2
C6_RegionBecomesTarget ==
    \A k \in 1..Len(region_log) :
        LET e == region_log[k]
            lo == LoFrame(e.region)
            hi == HiFrame(e.region)
        IN  /\ (hi > lo /\ \E f \in (lo + 1)..hi : e.before[f] = 2)
                  => \A f \in (lo + 1)..hi : e.after[f] = 2
            /\ (\A f \in 1..n : e.before[f] = 2) => e.after = e.before

\* C6 witness: an event was applied to a region holding target speech,
\* silence and other speech
C6_Witness ==
    \E k \in 1..Len(region_log) :
        LET e == region_log[k]
            lo == LoFrame(e.region)
            hi == HiFrame(e.region)
        IN  /\ \E f \in (lo + 1)..hi : e.before[f] = 2
            /\ \E f \in (lo + 1)..hi : e.before[f] = 0
            /\ \E f \in (lo + 1)..hi : e.before[f] = 1

\* the marker m applied to the labels l, written out: the rule of section
\* 4.4 on the region of lines 268-269
RefApply(l, m) ==
    LET r == [start_frame |-> ToFrame(m.start), end_frame |-> ToFrame(m.end)]
        lo == LoFrame(r)
        hi == HiFrame(r)
        v == IF \E f \in (lo + 1)..hi : l[f] = 2 THEN 2
             ELSE IF \A f \in (lo + 1)..hi : l[f] = 0 THEN 1 ELSE 3
    IN  [f \in 1..Len(l) |->
            IF hi > lo /\ f > lo /\ f <= hi /\ v # 3 THEN v ELSE l[f]]

\* C7: the events are applied in the order of their markers in the
\* transcript, each to the labels the earlier ones left
C7_MarkerOrder ==
    LET ms == AllMarkers(gtruth, 1)
    IN  (lab_pc = "done" /\ Len(ms) >= 1) =>
            /\ Len(region_log) = Len(ms)
            /\ labels = IF Len(ms) = 1 THEN RefApply(region_log[1].before, ms[1])
                        ELSE RefApply(RefApply(region_log[1].before, ms[1]), ms[2])

\* C7 witness: two events with intersecting frame ranges were applied and
\* the opposite order would have given other labels
C7_Witness ==
    LET ms == AllMarkers(gtruth, 1)
    IN  /\ lab_pc = "done" /\ Len(ms) = 2
        /\ ms[1].start < ms[2].end /\ ms[2].start < ms[1].end
        /\ labels # RefApply(RefApply(region_log[1].before, ms[2]), ms[1])

\* C8: an event changes no frame outside its clamped region, and on labels
\* that are all silence an event [s, e) with 0 <= s < e <= n sets exactly the
\* frames of [s, e) to 1
C8_FrameEffect ==
    \A k \in 1..Len(region_log) :
        LET e == region_log[k]
            lo == LoFrame(e.region)
            hi == HiFrame(e.region)
            s == e.region.start_frame
            t == e.region.end_frame
        IN  /\ \A f \in 1..n : (f <= lo \/ f > hi) => e.after[f] = e.before[f]
            /\ ((\A f \in 1..n : e.before[f] = 0) /\ 0 <= s /\ s < t /\ t <= n)
                  => \A f \in 1..n :
                        e.after[f] = IF f > s /\ f <= t THEN 1 ELSE 0

\* C8 witness: an event strictly inside the record was applied to labels
\* that were all silence
C8_Witness ==
    \E k \in 1..Len(region_log) :
        LET e == region_log[k]
        IN  /\ \A f \in 1..n : e.before[f] = 0
            /\ 0 < e.region.start_frame
            /\ e.region.start_frame < e.region.end_frame
            /\ e.region.end_frame < n
            /\ e.after[e.region.end_frame] = 1

\* C23: an event whose end frame, clamped to [0, n], is not above its start
\* frame, clamped to [0, n], changes no label; in particular an event whose
\* start frame is n or more changes no label
C23_EventPastTheEndChangesNothing ==
    \A k \in 1..Len(region_log) :
        LET e == region_log[k]
            lo == Max2(0, Min2(e.region.start_frame, n))
            hi == Max2(0, Min2(e.region.end_frame, n))
        IN  /\ hi <= lo => e.after = e.before
            /\ e.region.start_frame >= n => e.after = e.before

\* C24: after the base pass of a transcript that holds overlap-marker
\* tokens, every frame is covered by the stamps of a token that is no marker
\* token and carries the label of that token: 0 for silence and boundary, 2
\* for speech of the target ordinal, 1 for other speech
C24_BaseLabelsIgnoreMarkerTokens ==
    (lab_pc = "parse" /\ ~NoMarkers) =>
        \A f \in 0..(n - 1) :
            \E i \in 1..Len(gtruth) :
                /\ ~IsOverlapToken(gtruth[i])
                /\ Covers(i, f)
                /\ labels[f + 1] =
                      IF gtruth[i].kind \in {"", "$"} THEN 0
                      ELSE IF Ordinal(i) = which THEN 2 ELSE 1

\* C28: when the target is not drawn by dropout, the target ordinal of an
\* example of N main speakers (N - 1 boundary tokens before the first
\* overlap token) lies in 0..N-1 and is drawn from all of 0..N-1
C28_EveryMainSpeakerCanBeTarget ==
    (lab_pc \notin {"idle", "select"} /\ -1 \notin which_range) =>
        LET N == CountBoundaries(gtruth, 1) + 1
        IN  /\ which \in 0..(N - 1)
            /\ which_range = 0..(N - 1)

(***************************************************************************)
(* Properties of the score streams, checked under SpecScore.               *)
(***************************************************************************)
Expanded == sco_pc \in {"stack", "stacked", "skipped", "written"}

\* C10 as stated: every sliced score i < k-1, the first included, fills the
\* frames [i*H, (i+1)*H) of the step stream
C10_UniformHold ==
    Expanded =>
        \A i \in 0..(Len(scores_slices) - 2) :
            \A f \in (i * frame_step)..((i + 1) * frame_step - 1) :
                f < Len(scores_kron) => scores_kron[f + 1] = scores_slices[i + 1]

\* C10 amended: the first sliced score fills the first 160 frames, every
\* later sliced score i fills the H frames [160 + (i-1)*H, 160 + i*H), and
\* the stream is cut to n
C10_FirstWindowThenHold ==
    Expanded =>
        /\ Len(scores_kron) =
              (IF sco_n < 160 + (Len(scores_slices) - 1) * frame_step
               THEN sco_n ELSE 160 + (Len(scores_slices) - 1) * frame_step)
        /\ \A f \in 0..159 :
              f < Len(scores_kron) => scores_kron[f + 1] = scores_slices[1]
        /\ \A i \in 1..(Len(scores_slices) - 1) :
              \A f \in (160 + (i - 1) * frame_step)..(160 + i * frame_step - 1) :
                  f < Len(scores_kron) => scores_kron[f + 1] = scores_slices[i + 1]

\* C10 witness: three different sliced scores of hop 40 expanded to their
\* full length
C10_Witness ==
    /\ Expanded
    /\ frame_step = 40
    /\ Len(scores_slices) = 3
    /\ scores_slices[1] # scores_slices[2]
    /\ scores_slices[2] # scores_slices[3]
    /\ Len(scores_kron) = 240
    /\ scores_kron[160] = scores_slices[1]
    /\ scores_kron[161] = scores_slices[2]
    /\ scores_kron[201] = scores_slices[3]

\* C11 as stated: for i < k-1 and j < H, frame i*H + j of the linear stream
\* is sliced[i] + (j/H) * (sliced[i+1] - sliced[i]) (both sides times H)
C11_InterpFromFrameZero ==
    Expanded =>
        \A i \in 0..(Len(scores_slices) - 2) :
            \A j \in 0..(frame_step - 1) :
                i * frame_step + j < Len(scores_lin) =>
                    scores_lin[i * frame_step + j + 1] =
                        scores_slices[i + 1] * frame_step
                        + j * (scores_slices[i + 2] - scores_slices[i + 1])

\* C11 amended: the first 160 frames of the linear stream hold sliced[0];
\* for i < k-1 and j < H, frame 160 + i*H + j is
\* sliced[i] + (j/H) * (sliced[i+1] - sliced[i]); the stream is cut to n
C11_FirstWindowThenInterp ==
    Expanded =>
        /\ Len(scores_lin) =
              (IF sco_n < 160 + (Len(scores_slices) - 1) * frame_step
               THEN sco_n ELSE 160 + (Len(scores_slices) - 1) * frame_step)
        /\ \A f \in 0..159 :
              f < Len(scores_lin) =>
                  scores_lin[f + 1] = scores_slices[1] * frame_step
        /\ \A i \in 0..(Len(scores_slices) - 2) :
              \A j \in 0..(frame_step - 1) :
                  160 + i * frame_step + j < Len(scores_lin) =>
                      scores_lin[160 + i * frame_step + j + 1] =
                          scores_slices[i + 1] * frame_step
                          + j * (scores_slices[i + 2] - scores_slices[i + 1])

\* C11 witness: three different sliced scores of hop 40 expanded to their
\* full length, with values strictly between the sliced scores in both
\* segments
C11_Witness ==
    /\ Expanded
    /\ frame_step = 40
    /\ Len(scores_slices) = 3
    /\ scores_slices[1] < scores_slices[2]
    /\ scores_slices[2] > scores_slices[3]
    /\ Len(scores_lin) = 240
    /\ scores_lin[160] = scores_slices[1] * 40
    /\ scores_lin[162] > scores_slices[1] * 40
    /\ scores_lin[162] < scores_slices[2] * 40
    /\ scores_lin[240] < scores_slices[2] * 40
    /\ scores_lin[240] > scores_slices[3] * 40

\* C12: a record that is written has a score matrix of exactly 3 rows, in
\* the order stream, step, linear, each of exactly n columns, n being the
\* rows of the features and the length of the labels written with it
C12_ScoreMatrixShape ==
    sco_pc = "written" =>
        /\ Len(scores) = 3
        /\ scores[1] = scores_stream
        /\ scores[2] = scores_kron
        /\ scores[3] = scores_lin
        /\ \A r \in 1..3 : Len(scores[r]) = sco_n
        /\ written.score_rows = 3
        /\ written.score_cols = {sco_n}
        /\ written.fbanks_rows = sco_n
        /\ written.labels_len = sco_n

\* C12 witness: a record with three sliced scores of hop 40 is written at
\* the full length of the expansion, the three rows being different
C12_Witness ==
    /\ sco_pc = "written"
    /\ frame_step = 40
    /\ Len(scores_slices) = 3
    /\ sco_n = 240
    /\ scores[1] # scores[2]
    /\ scores[2] # scores[3]

\* C25: when the expansion of the sliced scores has fewer than n entries,
\* the step and the linear stream are extended with zeros to n entries and
\* the record is not skipped
C25_ShortExpansionZeroExtended ==
    LET full == FirstSliceFrames + frame_step * (Len(scores_slices) - 1)
    IN  (Expanded /\ full < sco_n) =>
            /\ Len(scores_kron) = sco_n
            /\ Len(scores_lin) = sco_n
            /\ \A f \in (full + 1)..sco_n :
                   scores_kron[f] = 0 /\ scores_lin[f] = 0
            /\ sco_pc # "skipped"

(***************************************************************************)
(* Properties of the queues, checked under SpecQueue.                      *)
(***************************************************************************)
\* C13: every reply a worker takes from the return queue it was handed is
\* the reply to its own outstanding request
C13_OwnReply ==
    \A k \in 1..Len(taken) :
        /\ taken[k].reply.pid = taken[k].by
        /\ taken[k].reply.rec = taken[k].rec

\* the requests of worker p that are on q_send or answered and not taken
Outstanding(p) ==
    Cardinality({i \in 1..Len(q_send) : q_send[i].pid = p})
        + Cardinality({<<q, i>> \in (0..(nj - 1)) \X (1..MaxRecords) :
                          /\ i <= Len(q_return[q])
                          /\ q_return[q][i].pid = p})

\* C30: under fair scheduling every worker that has put a request takes a
\* reply, every worker reaches the end of its shard, and no worker ever
\* has more than one request outstanding
C30_NoWorkerBlocksForever ==
    /\ \A p \in 0..(MaxShards - 1) :
          (p < nj /\ wk[p].pc = "get") ~> (p < nj /\ wk[p].pc = "put")
    /\ <>(\A p \in 0..(nj - 1) :
             wk[p].pc = "put" /\ wk[p].rec = wk[p].recs)
    /\ [](\A p \in 0..(nj - 1) : Outstanding(p) <= 1)

(***************************************************************************)
(* Properties of the worker loop, checked under SpecWorker.                *)
(***************************************************************************)
\* C14: a malformed or unreadable record is skipped and nothing else: the
\* worker is never aborted, and when it stops it has visited every record
\* of its shard and written every well-formed one
C14_OnlyTheRecordIsSkipped ==
    /\ wrk_pc # "aborted"
    /\ wrk_pc \in {"closed", "aborted"} =>
          /\ Len(outcomes) = Len(wav_scp)
          /\ \A i \in 1..Len(wav_scp) :
                outcomes[i] = IF wav_scp[i] = WellFormed
                              THEN "written" ELSE "skipped"

\* C27: the feature store, the score store, the label store and the target
\* index of a shard hold the same sequence of ids, the ids are in the order
\* of the shard's input, and a record whose transcript key is missing or
\* whose scores do not stack has an entry in none of the four
C27_OutputsHoldTheSameIds ==
    /\ score_writer = array_writer
    /\ label_writer = array_writer
    /\ target_writer = array_writer
    /\ \A i \in 1..Len(array_writer) :
          /\ array_writer[i] \in 1..wav_pos
          /\ \A j \in (i + 1)..Len(array_writer) :
                array_writer[i] < array_writer[j]
    /\ \A p \in 1..wav_pos :
          (~wav_scp[p].in_txt \/ ~wav_scp[p].stackable) =>
              \A i \in 1..Len(array_writer) : array_writer[i] # p

\* C27 witness: a shard of three records is closed, the second was skipped
\* for its scores, and the four outputs hold the first and the third
C27_Witness ==
    /\ wrk_pc = "closed"
    /\ Len(wav_scp) = 3
    /\ ~wav_scp[2].stackable
    /\ array_writer = <<1, 3>>
    /\ target_writer = <<1, 3>>

(***************************************************************************)
(* Properties of one run of the generator, checked under SpecRun.          *)
(***************************************************************************)
\* C15: with overlap_pct outside [0, 100], a negative amplitude_ratio or a
\* destination that is not absolute, the run never passes the validation:
\* it exits with status 1, the dataset is never loaded, no directory or
\* index file is created and nothing is drawn or generated
C15_FailFast ==
    (\/ args.overlap_pct < 0 \/ args.overlap_pct > 100
     \/ args.amplitude_ratio < 0
     \/ ~args.dest_abs) =>
        /\ run_pc \in {"validate", "exit1"}
        /\ effects = {}
        /\ dataset = <<>>
        /\ iteration = 0 /\ generated = 0 /\ reported = -1
        /\ \A u \in Utterances : drawn[u] = 0

\* C15 witness: a run whose only fault is the relative destination, with
\* overlap_pct and amplitude_ratio on the edges of their ranges, has exited
\* with status 1
C15_Witness ==
    /\ run_pc = "exit1"
    /\ ~args.dest_abs
    /\ args.overlap_pct = 100
    /\ args.amplitude_ratio = 0
    /\ effects = {}

\* C16: when the pool is depleted during the run, the run ends without an
\* error and the count it reports is the number of examples written
C16_ReportsPartialCount ==
    depleted =>
        /\ run_pc \in {"report", "exit0"}
        /\ run_pc = "exit0" => reported = generated

\* C17: no utterance is drawn twice, a drawn utterance is no longer in its
\* speaker's list (whether or not the iteration or the event it was drawn
\* for is skipped), and every speaker in the pool has an unconsumed
\* utterance
C17_DrawnAtMostOnce ==
    /\ \A u \in Utterances :
          /\ drawn[u] <= 1
          /\ drawn[u] = 1 =>
                ~(u[1] \in DOMAIN dataset /\ u[2] \in dataset[u[1]])
    /\ \A sp \in DOMAIN dataset : dataset[sp] # {}

\* C17 witness: the second iteration starts after the first was skipped;
\* of the drawn speakers one has left the pool and one is still in it, and
\* an undrawn speaker is in it too
C17_Witness ==
    /\ run_pc = "main"
    /\ iteration = 1 /\ generated = 0
    /\ drawn[<<1, 1>>] = 1 /\ 1 \notin DOMAIN dataset
    /\ drawn[<<2, 1>>] = 1 /\ 2 \in DOMAIN dataset
    /\ 3 \in DOMAIN dataset /\ drawn[<<3, 1>>] = 0 /\ drawn[<<3, 2>>] = 0

\* C29: no speaker of a recorded overlap event of a written example is
\* also a speaker of the main track of that example
C29_OverlapSpeakersAreSecondary ==
    [][generated' = generated + 1 =>
          main_speakers_ids \cap overlap_speakers_ids = {}]_vars

(***************************************************************************)
(* Properties of the timestamps of the main track, checked under           *)
(* SpecStamps.                                                             *)
(***************************************************************************)
\* C18: the last timestamp of an example equals the total duration of the
\* main track, the sum of the end stamps of its utterances
C18_LastStampIsTotal ==
    stamp_pc = "done" =>
        main_tstamps[Len(main_tstamps)] = prev_end_stamp

\* C19: the timestamps of an example are non-decreasing from the first to
\* the last, the forced one included
C19_StampsNonDecreasing ==
    stamp_pc = "done" =>
        \A i \in 1..(Len(main_tstamps) - 1) :
            main_tstamps[i] <= main_tstamps[i + 1]

(***************************************************************************)
(* Properties of one event by its sizes, checked under SpecEvent.          *)
(***************************************************************************)
\* C21 as stated: below 100 % the duration of a mixed event is
\* min(M, max(MIN, min(floor(pct/100 * M), MAX))) whatever the length of
\* the snippet
C21_DurationIgnoresSnippet ==
    (event_pc = "recorded" /\ event_in.overlap_pct < 100) =>
        LET M == event_in.main_size
            fl == (event_in.overlap_pct * M) \div 100
            lo == (MIN_OVERLAP_DURATION * SampleRate) \div 10
            hi == (MAX_OVERLAP_DURATION * SampleRate) \div 10
            clamped == IF fl > hi THEN hi ELSE IF fl < lo THEN lo ELSE fl
        IN  event_out.overlap_duration = IF clamped < M THEN clamped ELSE M

\* C21 amended: below 100 % the duration of a mixed event is
\* min(M, S, max(MIN, min(d, MAX))), S being the length of the snippet and
\* d = int((pct / 100.0) * M), which is floor(pct/100 * M) or one less; the
\* snippet is never tiled below 100 %
C21_DurationCappedBySnippet ==
    (event_pc = "recorded" /\ event_in.overlap_pct < 100) =>
        LET M == event_in.main_size
            S == event_in.snippet_size
            fl == (event_in.overlap_pct * M) \div 100
            lo == (MIN_OVERLAP_DURATION * SampleRate) \div 10
            hi == (MAX_OVERLAP_DURATION * SampleRate) \div 10
            Target(d) == LET c == IF d > hi THEN hi ELSE IF d < lo THEN lo ELSE d
                             m == IF c < S THEN c ELSE S
                         IN  IF m < M THEN m ELSE M
        IN  /\ event_out.overlap_duration \in {Target(fl), Target(fl - 1)}
            /\ event_out.overlap_duration <= S
            /\ ~event_out.tiled

\* C21 witness: at 99 % of 9000 samples the target of 8910 samples lies
\* between the limits, and the snippet of 8500 samples caps the duration
C21_Witness ==
    /\ event_pc = "recorded"
    /\ event_in.overlap_pct = 99
    /\ event_in.main_size = 9000
    /\ event_in.snippet_size = 8500
    /\ event_out.overlap_duration = 8500

\* C22: a recorded event of duration D on a main track of M samples has
\* 0 <= start <= M - D and start < end = start + D <= M, and at
\* overlap_pct >= 80 its start is at most floor((M - D) / 3)
C22_StartInRange ==
    event_pc = "recorded" =>
        LET M == event_in.main_size
            D == event_out.overlap_duration
        IN  /\ 0 <= event_out.overlap_start
            /\ event_out.overlap_start <= M - D
            /\ event_out.overlap_start < event_out.overlap_end
            /\ event_out.overlap_end = event_out.overlap_start + D
            /\ event_out.overlap_end <= M
            /\ event_in.overlap_pct >= 80 =>
                  event_out.overlap_start <= (M - D) \div 3

\* C22 witness: at 80 % an event of 8500 samples on a main track of 50000
\* starts at the last offset of the first third of the range
C22_Witness ==
    /\ event_pc = "recorded"
    /\ event_in.overlap_pct = 80
    /\ event_in.main_size = 50000
    /\ event_out.overlap_duration = 8500
    /\ event_out.overlap_start = 13833

(***************************************************************************)
(* Properties of the length of the main track, checked under SpecBuild.    *)
(***************************************************************************)
\* the samples of all the trimmed utterances of the iteration together
RECURSIVE SumSizes(_, _)
SumSizes(sizes, i) ==
    IF i > Len(sizes) THEN 0 ELSE sizes[i] + SumSizes(sizes, i + 1)

BuildSettled == build_pc \in {"skipped", "persisted"}

\* C26 as stated: an iteration is skipped exactly when its concatenated
\* trimmed main audio has fewer than 100 samples, whatever the lengths of
\* the single utterances, and a skipped iteration writes nothing
C26_SkippedIffConcatenationShort ==
    BuildSettled =>
        /\ (build_pc = "skipped") = (SumSizes(trimmed_sizes, 1) < MinSamples)
        /\ build_pc = "skipped" => build_written = {}

\* C26 amended: an iteration is skipped exactly when one of its trimmed
\* main utterances has fewer than 100 samples; an iteration whose
\* utterances all reach 100 samples is written with all of them, and a
\* skipped iteration writes nothing
C26_SkippedIffAnUtteranceShort ==
    BuildSettled =>
        /\ (build_pc = "skipped") =
              (\E i \in 1..Len(trimmed_sizes) : trimmed_sizes[i] < MinSamples)
        /\ build_pc = "skipped" => build_written = {}
        /\ build_pc = "persisted" =>
              /\ main_audio_size = SumSizes(trimmed_sizes, 1)
              /\ build_written = ExampleFiles

\* C26 witness: an iteration whose utterances have 150 and 50 samples, 200
\* together, is skipped and nothing is written
C26_Witness ==
    /\ build_pc = "skipped"
    /\ trimmed_sizes = <<150, 50>>
    /\ build_written = {}

=============================================================================
